---- MODULE Spec2Model ----
(***************************************************************************)
(* Model of the persistence layer of the expense manager                   *)
(* (src/services/db.ts) and of the handlers of src/App.tsx that call it.   *)
(*                                                                         *)
(* The two IndexedDB object stores are the state.  Every IndexedDB         *)
(* transaction is one atomic step (the engine isolates transactions whose  *)
(* scopes overlap); an operation of db.ts that opens two transactions      *)
(* (importDatabase, exportDatabase) is one step per transaction.           *)
(*                                                                         *)
(* last is the outcome of the last call, pre the content of the stores     *)
(* when it was made, and fault the storage failure the engine met in it.   *)
(* app is the state of the App component (its useState cells and the time  *)
(* zone of the host), calls the handler calls that are awaiting the        *)
(* engine, oldest first.                                                   *)
(*                                                                         *)
(* Strings that the code compares (dates, times, month tokens) are         *)
(* sequences of character codes, so that the comparison is the             *)
(* lexicographic one the code relies on.                                   *)
(***************************************************************************)
EXTENDS Integers, Sequences, FiniteSets, TLC

VARIABLES txStore, budgetStore, imp, exp, last, pre, fault, app, calls

vars == <<txStore, budgetStore, imp, exp, last, pre, fault, app, calls>>

\* ------------------------------------------------------------------------
\* Bounds of the model
\* ------------------------------------------------------------------------

\* number of distinct transaction ids in the store specifications
MaxId == 2

\* number of distinct transaction ids in the month-query specification
MaxQueryId == 3

\* number of handler calls that await the engine at one time
MaxCalls == 2

\* ------------------------------------------------------------------------
\* Strings as sequences of character codes
\* ------------------------------------------------------------------------

Digit(n) == 48 + n

Dash == <<45>>

Colon == <<58>>

Pad2(n) == <<Digit(n \div 10), Digit(n % 10)>>

Pad4(n) == <<Digit(n \div 1000), Digit((n \div 100) % 10), Digit((n \div 10) % 10), Digit(n % 10)>>

\* "YYYY-MM"
MonthToken(y, m) == Pad4(y) \o Dash \o Pad2(m)

\* "YYYY-MM-DD"
DateStr(y, m, d) == MonthToken(y, m) \o Dash \o Pad2(d)

\* "HH:MM"
TimeStr(h, m) == Pad2(h) \o Colon \o Pad2(m)

\* the empty string (falsy in the comparator's a.time && b.time)
NoTime == <<>>

RECURSIVE StrCmp(_, _)
\* -1, 0, 1: comparison of two strings by code units, a proper prefix first
StrCmp(a, b) ==
  IF a = <<>> THEN (IF b = <<>> THEN 0 ELSE -1)
  ELSE IF b = <<>> THEN 1
  ELSE IF Head(a) < Head(b) THEN -1
  ELSE IF Head(a) > Head(b) THEN 1
  ELSE StrCmp(Tail(a), Tail(b))

\* IDBKeyRange.bound(lower, upper).includes(key), both bounds closed
InRange(key, lower, upper) == StrCmp(lower, key) <= 0 /\ StrCmp(key, upper) <= 0

\* ------------------------------------------------------------------------
\* Records
\* ------------------------------------------------------------------------

Ids == 1..MaxId

Feb29 == DateStr(2024, 2, 29)

Mar01 == DateStr(2024, 3, 1)

\* the fields of a Transaction other than its id
Payloads ==
  { [description |-> "mercado", amount |-> 1250, method |-> "DEBIT",
     date |-> Feb29, time |-> TimeStr(9, 0), createdAt |-> 100],
    [description |-> "aluguel", amount |-> 80000, method |-> "CREDIT",
     date |-> Mar01, time |-> NoTime, createdAt |-> 200] }

Transaction(i, p) ==
  [id |-> i, description |-> p.description, amount |-> p.amount, method |-> p.method,
   date |-> p.date, time |-> p.time, createdAt |-> p.createdAt]

Transactions == { Transaction(i, p) : i \in Ids, p \in Payloads }

Months == { MonthToken(2024, 2), MonthToken(2024, 3), MonthToken(2099, 1) }

BudgetMonths == { MonthToken(2024, 2), MonthToken(2024, 3) }

Limits == { 0, 500 }

MonthlyBudget(m, l) == [month |-> m, limit |-> l]

Budgets == { MonthlyBudget(m, l) : m \in BudgetMonths, l \in Limits }

\* ------------------------------------------------------------------------
\* Object stores: a function from the key path's value to the record
\* ------------------------------------------------------------------------

EmptyStore == [k \in {} |-> 0]

Has(store, key) == key \in DOMAIN store

\* IDBObjectStore.put: insert or overwrite
StorePut(store, key, rec) ==
  [k \in DOMAIN store \cup {key} |-> IF k = key THEN rec ELSE store[k]]

\* IDBObjectStore.delete that removes every record up to the key
StoreDeleteUpTo(store, key) == [k \in { j \in DOMAIN store : j > key } |-> store[k]]

\* IDBObjectStore.delete: no error when the key is absent
StoreDelete(store, key) == [k \in DOMAIN store \ {key} |-> store[k]]

\* both object stores together
Store == [tx |-> txStore, budgets |-> budgetStore]

\* all contents the transactions store can have over the given ids
TxStoresOver(ids, payloads) ==
  UNION { [S -> payloads] : S \in SUBSET ids }

AllTxStores ==
  { [i \in DOMAIN f |-> Transaction(i, f[i])] : f \in TxStoresOver(Ids, Payloads) }

AllBudgetStores ==
  UNION { { [m \in S |-> MonthlyBudget(m, f[m])] : f \in [S -> Limits] } : S \in SUBSET BudgetMonths }

\* ------------------------------------------------------------------------
\* The outcome of the last call
\* ------------------------------------------------------------------------

NoValue == <<>>

Outcome(op, arg, status, value) == [op |-> op, arg |-> arg, status |-> status, value |-> value]

IdleImp == [pc |-> "idle"]

IdleExp == [pc |-> "idle"]

\* ------------------------------------------------------------------------
\* getTransactionsByMonth: index range query, then Array.prototype.sort
\* ------------------------------------------------------------------------

\* order of the 'date' index: by date, then by primary key
IndexBefore(a, b) ==
  \/ StrCmp(a.date, b.date) < 0
  \/ a.date = b.date /\ a.id < b.id

RECURSIVE InIndexOrder(_)
\* the records of a set in the order of the 'date' index
InIndexOrder(recs) ==
  IF recs = {} THEN <<>>
  ELSE LET first == CHOOSE r \in recs : \A o \in recs \ {r} : IndexBefore(r, o)
       IN  <<first>> \o InIndexOrder(recs \ {first})

\* index.getAll(IDBKeyRange.bound(lower, upper))
IndexGetAll(store, lower, upper) ==
  InIndexOrder({ store[k] : k \in { j \in DOMAIN store : InRange(store[j].date, lower, upper) } })

\* sign of the value the comparator of results.sort returns for (a, b)
Compare(a, b) ==
  IF a.date # b.date THEN StrCmp(b.date, a.date)
  ELSE IF a.time # NoTime /\ b.time # NoTime /\ a.time # b.time THEN StrCmp(b.time, a.time)
  ELSE IF b.createdAt > a.createdAt THEN 1
  ELSE IF b.createdAt < a.createdAt THEN -1
  ELSE 0

\* the comparator is a consistent comparator (ECMAScript, Array.prototype.sort)
\* for the records of the set
ConsistentOn(recs) ==
  /\ \A a \in recs : Compare(a, a) = 0
  /\ \A a, b \in recs : Compare(a, b) = 0 - Compare(b, a)
  /\ \A a, b, c \in recs :
       /\ (Compare(a, b) = 0 /\ Compare(b, c) = 0) => Compare(a, c) = 0
       /\ (Compare(a, b) < 0 /\ Compare(b, c) < 0) => Compare(a, c) < 0
       /\ (Compare(a, b) < 0 /\ Compare(b, c) = 0) => Compare(a, c) < 0
       /\ (Compare(a, b) = 0 /\ Compare(b, c) < 0) => Compare(a, c) < 0

Range(seq) == { seq[i] : i \in DOMAIN seq }

Front(seq) == SubSeq(seq, 1, Len(seq) - 1)

RECURSIVE InsertSorted(_, _)
\* x put behind the last element that does not sort after it (stable)
InsertSorted(sorted, x) ==
  IF sorted = <<>> THEN <<x>>
  ELSE IF Compare(sorted[Len(sorted)], x) <= 0 THEN Append(sorted, x)
  ELSE Append(InsertSorted(Front(sorted), x), sorted[Len(sorted)])

RECURSIVE StableSort(_)
StableSort(seq) ==
  IF seq = <<>> THEN <<>>
  ELSE InsertSorted(StableSort(Front(seq)), seq[Len(seq)])

\* every order of the elements of seq
Orderings(seq) ==
  { [i \in DOMAIN seq |-> seq[p[i]]] : p \in Permutations(DOMAIN seq) }

\* what results.sort(comparator) can leave in results: the stable sorted order
\* when the comparator is consistent, an implementation-defined order otherwise
SortOutcomes(seq) ==
  IF ConsistentOn(Range(seq)) THEN { StableSort(seq) } ELSE Orderings(seq)


\* the month query with the last day of a 30-day month as its upper bound
MonthResultsTo30(store, month) ==
  SortOutcomes(IndexGetAll(store, month \o Dash \o Pad2(1), month \o Dash \o Pad2(30)))

\* the values getTransactionsByMonth(month) can resolve with
MonthResults(store, month) ==
  SortOutcomes(IndexGetAll(store, month \o Dash \o Pad2(1), month \o Dash \o Pad2(31)))

\* the value getMonthlyBudget(month) resolves with
BudgetResult(store, month) == IF Has(store, month) THEN store[month].limit ELSE 0

\* ------------------------------------------------------------------------
\* Operations of db.ts that run in one IndexedDB transaction
\* ------------------------------------------------------------------------


\* addTransaction written with put instead of add
addTransactionAsPut(t) ==
  /\ txStore' = StorePut(txStore, t.id, t)
  /\ last' = Outcome("addTransaction", t, "ok", NoValue)
  /\ UNCHANGED budgetStore

addTransaction(t) ==
  /\ IF Has(txStore, t.id)
       THEN /\ last' = Outcome("addTransaction", t, "ConstraintError", NoValue)
            /\ UNCHANGED txStore
       ELSE /\ txStore' = StorePut(txStore, t.id, t)
            /\ last' = Outcome("addTransaction", t, "ok", NoValue)
  /\ UNCHANGED budgetStore

\* updateTransaction that rejects a Transaction whose id is not stored
updateTransactionStrict(t) ==
  /\ IF Has(txStore, t.id)
       THEN /\ txStore' = StorePut(txStore, t.id, t)
            /\ last' = Outcome("updateTransaction", t, "ok", NoValue)
       ELSE /\ last' = Outcome("updateTransaction", t, "NotFoundError", NoValue)
            /\ UNCHANGED txStore
  /\ UNCHANGED budgetStore

\* updateTransaction that leaves a stored record as it is
updateTransactionKeepsStored(t) ==
  /\ txStore' = IF Has(txStore, t.id) THEN txStore ELSE StorePut(txStore, t.id, t)
  /\ last' = Outcome("updateTransaction", t, "ok", NoValue)
  /\ UNCHANGED budgetStore

updateTransaction(t) ==
  /\ txStore' = StorePut(txStore, t.id, t)
  /\ last' = Outcome("updateTransaction", t, "ok", NoValue)
  /\ UNCHANGED budgetStore


\* deleteTransaction that rejects an id that is not stored
deleteTransactionStrict(id) ==
  /\ IF Has(txStore, id)
       THEN /\ txStore' = StoreDelete(txStore, id)
            /\ last' = Outcome("deleteTransaction", id, "ok", NoValue)
       ELSE /\ last' = Outcome("deleteTransaction", id, "NotFoundError", NoValue)
            /\ UNCHANGED txStore
  /\ UNCHANGED budgetStore

deleteTransaction(id) ==
  /\ txStore' = StoreDelete(txStore, id)
  /\ last' = Outcome("deleteTransaction", id, "ok", NoValue)
  /\ UNCHANGED budgetStore

getTransactionsByMonth(month) ==
  /\ \E results \in MonthResults(txStore, month) :
       last' = Outcome("getTransactionsByMonth", month, "ok", results)
  /\ UNCHANGED <<txStore, budgetStore>>

\* setMonthlyBudget written with add instead of put
setMonthlyBudgetAsAdd(budget) ==
  /\ IF Has(budgetStore, budget.month)
       THEN /\ last' = Outcome("setMonthlyBudget", budget, "ConstraintError", NoValue)
            /\ UNCHANGED budgetStore
       ELSE /\ budgetStore' = StorePut(budgetStore, budget.month, budget)
            /\ last' = Outcome("setMonthlyBudget", budget, "ok", NoValue)
  /\ UNCHANGED txStore

setMonthlyBudget(budget) ==
  /\ budgetStore' = StorePut(budgetStore, budget.month, budget)
  /\ last' = Outcome("setMonthlyBudget", budget, "ok", NoValue)
  /\ UNCHANGED txStore


\* getMonthlyBudget that reads data.limit without the test of data
getMonthlyBudgetNoDefault(month) ==
  /\ IF Has(budgetStore, month)
       THEN last' = Outcome("getMonthlyBudget", month, "ok", budgetStore[month].limit)
       ELSE last' = Outcome("getMonthlyBudget", month, "TypeError", NoValue)
  /\ UNCHANGED <<txStore, budgetStore>>

getMonthlyBudget(month) ==
  /\ last' = Outcome("getMonthlyBudget", month, "ok", BudgetResult(budgetStore, month))
  /\ UNCHANGED <<txStore, budgetStore>>


\* clearAllData that clears the transactions store only
clearAllDataTxOnly ==
  /\ txStore' = EmptyStore
  /\ UNCHANGED budgetStore
  /\ last' = Outcome("clearAllData", NoValue, "ok", NoValue)

clearAllData ==
  /\ txStore' = EmptyStore
  /\ budgetStore' = EmptyStore
  /\ last' = Outcome("clearAllData", NoValue, "ok", NoValue)

\* ------------------------------------------------------------------------
\* State of the App component
\* ------------------------------------------------------------------------

\* the useState cells of App right after the first render; an optional value
\* (editingTransaction) is a set of at most one element
AppState(currentMonth, timezoneOffset) ==
  [ currentMonth       |-> currentMonth,
    transactions       |-> <<>>,
    budget             |-> 0,
    isLoading          |-> TRUE,
    editingTransaction |-> {},
    timezoneOffset     |-> timezoneOffset ]

\* the component in the specifications that only call the persistence layer
IdleApp == AppState(MonthToken(2024, 2), 0)

\* ------------------------------------------------------------------------
\* The record store in use: the database as openDB creates it, and any
\* sequence of single-transaction operations.  pre is the content of the
\* stores when the last operation was called.
\* ------------------------------------------------------------------------

NoOutcome == Outcome("none", NoValue, "ok", NoValue)

Init ==
  /\ txStore = EmptyStore
  /\ budgetStore = EmptyStore
  /\ imp = IdleImp
  /\ exp = IdleExp
  /\ last = NoOutcome
  /\ fault = "none"
  /\ app = IdleApp
  /\ calls = <<>>
  /\ pre = [tx |-> EmptyStore, budgets |-> EmptyStore]

Called == pre' = Store /\ UNCHANGED <<imp, exp, fault, app, calls>>

Next ==
  \/ \E t \in Transactions : addTransaction(t) /\ Called
  \/ \E t \in Transactions : updateTransaction(t) /\ Called
  \/ \E id \in Ids : deleteTransaction(id) /\ Called
  \/ \E m \in Months : getTransactionsByMonth(m) /\ Called
  \/ \E b \in Budgets : setMonthlyBudget(b) /\ Called
  \/ \E m \in Months : getMonthlyBudget(m) /\ Called
  \/ clearAllData /\ Called

Spec == Init /\ [][Next]_vars

\* ------------------------------------------------------------------------
\* Backup: exportDatabase and importDatabase
\* ------------------------------------------------------------------------

\* A parsed backup file: keys are the properties the object has; a property
\* that is not in keys is undefined.
Snapshot(keys, transactions, budgets) ==
  [keys |-> keys, version |-> 1, timestamp |-> 1717236000,
   transactions |-> transactions, budgets |-> budgets]

BackupKeys == { "version", "timestamp", "transactions", "budgets" }

\* the value of a record at the key path of its object store
KeyOf(rec, keyPath) == IF keyPath = "id" THEN rec.id ELSE rec.month

\* the order of the keys of an object store: ids, or month strings
KeyBefore(a, b, keyPath) == IF keyPath = "id" THEN a < b ELSE StrCmp(a, b) < 0

RECURSIVE GetAllFrom(_, _, _)
\* the records of the keys, in the order of the keys
GetAllFrom(store, keys, keyPath) ==
  IF keys = {} THEN <<>>
  ELSE LET first == CHOOSE k \in keys : \A o \in keys \ {k} : KeyBefore(k, o, keyPath)
       IN  <<store[first]>> \o GetAllFrom(store, keys \ {first}, keyPath)

\* IDBObjectStore.getAll()
GetAll(store, keyPath) == GetAllFrom(store, DOMAIN store, keyPath)

RECURSIVE AddAll(_, _, _)
\* the add requests of one transaction, in order: ok is FALSE when a request
\* fails with ConstraintError (the key is already in the store)
AddAll(store, recs, keyPath) ==
  IF recs = <<>> THEN [ok |-> TRUE, store |-> store]
  ELSE IF Has(store, KeyOf(Head(recs), keyPath)) THEN [ok |-> FALSE, store |-> store]
  ELSE AddAll(StorePut(store, KeyOf(Head(recs), keyPath), Head(recs)), Tail(recs), keyPath)

\* exportDatabase, up to the two getStoreData calls: both read-only
\* transactions are created
exportDatabase_call ==
  /\ exp.pc # "reading"
  /\ exp' = [pc |-> "reading", got |-> {}, transactions |-> <<>>, budgets |-> <<>>]
  /\ last' = Outcome("exportDatabase", NoValue, "pending", NoValue)
  /\ UNCHANGED <<txStore, budgetStore>>

\* the getAll request of one of the two transactions succeeds
exportDatabase_getStoreData(storeName) ==
  /\ exp.pc = "reading"
  /\ storeName \notin exp.got
  /\ exp' = [exp EXCEPT !.got = @ \cup {storeName},
                        !.transactions = IF storeName = "transactions"
                                           THEN GetAll(txStore, "id") ELSE @,
                        !.budgets = IF storeName = "budgets"
                                      THEN GetAll(budgetStore, "month") ELSE @]
  /\ UNCHANGED <<txStore, budgetStore, last>>

\* Promise.all resolves and exportDatabase returns the snapshot
\* exportDatabase that returns the transactions in both lists
exportDatabase_returnTxTwice ==
  /\ exp.pc = "reading"
  /\ exp.got = { "transactions", "budgets" }
  /\ LET snapshot == Snapshot(BackupKeys, exp.transactions, exp.transactions)
     IN  /\ exp' = [pc |-> "returned", snapshot |-> snapshot]
         /\ last' = Outcome("exportDatabase", NoValue, "ok", snapshot)
  /\ UNCHANGED <<txStore, budgetStore>>

exportDatabase_return ==
  /\ exp.pc = "reading"
  /\ exp.got = { "transactions", "budgets" }
  /\ LET snapshot == Snapshot(BackupKeys, exp.transactions, exp.budgets)
     IN  /\ exp' = [pc |-> "returned", snapshot |-> snapshot]
         /\ last' = Outcome("exportDatabase", NoValue, "ok", snapshot)
  /\ UNCHANGED <<txStore, budgetStore>>

\* importDatabase that does not call clearAllData first
importDatabaseNoClear(data) ==
  /\ imp.pc # "cleared"
  /\ imp' = [pc |-> "cleared", data |-> data]
  /\ last' = Outcome("importDatabase", data, "pending", NoValue)
  /\ UNCHANGED <<txStore, budgetStore>>

\* importDatabase, up to the end of "await clearAllData()": the transaction
\* that clears both stores has committed
importDatabase_clear(data) ==
  /\ imp.pc # "cleared"
  /\ txStore' = EmptyStore
  /\ budgetStore' = EmptyStore
  /\ imp' = [pc |-> "cleared", data |-> data]
  /\ last' = Outcome("importDatabase", data, "pending", NoValue)

\* the second transaction of importDatabase with the budgets left out
importDatabase_insertTxOnly ==
  /\ imp.pc = "cleared"
  /\ LET data == imp.data
         txs  == AddAll(txStore, data.transactions, "id")
     IN  /\ txStore' = txs.store
         /\ UNCHANGED budgetStore
         /\ last' = Outcome("importDatabase", data, "ok", NoValue)
  /\ imp' = [pc |-> "returned"]

\* the second transaction of importDatabase.  data.transactions.forEach and
\* data.budgets.forEach throw a TypeError on an undefined property, which
\* rejects the promise; the add requests made before the throw stay in the
\* transaction, which commits unless one of them fails.  A failed add aborts
\* the transaction, and all its adds are undone.
\* the second transaction of importDatabase written with put instead of add
importDatabase_insertAsPut ==
  /\ imp.pc = "cleared"
  /\ LET data == imp.data
         Puts[i \in 0..Len(data.transactions)] ==
           IF i = 0 THEN txStore
           ELSE StorePut(Puts[i - 1], data.transactions[i].id, data.transactions[i])
         BudgetPuts[i \in 0..Len(data.budgets)] ==
           IF i = 0 THEN budgetStore
           ELSE StorePut(BudgetPuts[i - 1], data.budgets[i].month, data.budgets[i])
     IN  /\ txStore' = Puts[Len(data.transactions)]
         /\ budgetStore' = BudgetPuts[Len(data.budgets)]
         /\ last' = Outcome("importDatabase", data, "ok", NoValue)
  /\ imp' = [pc |-> "returned"]

importDatabase_insert ==
  /\ imp.pc = "cleared"
  /\ LET data    == imp.data
         hasTx   == "transactions" \in data.keys
         hasB    == "budgets" \in data.keys
         txs     == IF hasTx THEN AddAll(txStore, data.transactions, "id")
                             ELSE [ok |-> TRUE, store |-> txStore]
         budgets == IF hasTx /\ hasB THEN AddAll(budgetStore, data.budgets, "month")
                                     ELSE [ok |-> TRUE, store |-> budgetStore]
         commits == txs.ok /\ budgets.ok
     IN  /\ txStore' = IF commits THEN txs.store ELSE txStore
         /\ budgetStore' = IF commits THEN budgets.store ELSE budgetStore
         /\ last' = Outcome("importDatabase", data,
                            IF ~hasTx \/ ~hasB THEN "TypeError"
                            ELSE IF commits THEN "ok" ELSE "ConstraintError",
                            NoValue)
  /\ imp' = [pc |-> "returned"]

\* the "Basic validation" of handleFileChange: !data.transactions || !data.budgets
\* (an array, also an empty one, is truthy)
\* a validation that takes an empty list for a missing one
PassesValidationNonEmpty(data) ==
  /\ "transactions" \in data.keys /\ data.transactions # <<>>
  /\ "budgets" \in data.keys /\ data.budgets # <<>>

PassesValidation(data) == "transactions" \in data.keys /\ "budgets" \in data.keys

\* handleFileChange of App.tsx, once the file is read and parsed
handleFileChange(data) ==
  IF PassesValidation(data)
    THEN importDatabase_clear(data)
    ELSE /\ last' = Outcome("handleFileChange", data, "Arquivo de backup invalido", NoValue)
         /\ UNCHANGED <<txStore, budgetStore, imp>>

\* ------------------------------------------------------------------------
\* Import on its own: the stores hold anything, one import runs, called
\* by handleFileChange of App.tsx or directly (as the handleFileChange
\* of the single-file copy of the app does), and the two read operations run
\* at any moment.  pre is the content of the stores when the import was called.
\* ------------------------------------------------------------------------

TxSeqs ==
  { <<>> } \cup { <<t>> : t \in Transactions } \cup { <<s, t>> : s, t \in Transactions }

BudgetSeqs == { <<>> } \cup { <<b>> : b \in Budgets }

\* backups with two budgets of one month, and budgets only
DuplicateBudgetSnapshots ==
  { Snapshot(BackupKeys, <<>>, <<a, b>>) : a, b \in { c \in Budgets : c.month = MonthToken(2024, 2) } }

ValidSnapshots ==
  { Snapshot(BackupKeys, ts, bs) : ts \in TxSeqs, bs \in BudgetSeqs } \cup DuplicateBudgetSnapshots

\* objects without the transactions property, the budgets property, or both
InvalidSnapshots ==
  { Snapshot({}, <<>>, <<>>) }
  \cup { Snapshot(BackupKeys \ {"budgets"}, ts, <<>>) : ts \in TxSeqs }
  \cup { Snapshot(BackupKeys \ {"transactions"}, <<>>, bs) : bs \in BudgetSeqs }

ImportInputs == ValidSnapshots \cup InvalidSnapshots

ReadMonths == BudgetMonths

InitStores ==
  /\ txStore \in AllTxStores
  /\ budgetStore \in AllBudgetStores
  /\ imp = IdleImp
  /\ exp = IdleExp
  /\ last = NoOutcome
  /\ fault = "none"
  /\ app = IdleApp
  /\ calls = <<>>
  /\ pre = [tx |-> txStore, budgets |-> budgetStore]

NextImport ==
  \/ \E data \in ImportInputs :
       imp.pc = "idle" /\ importDatabase_clear(data) /\ pre' = Store /\ UNCHANGED <<exp, fault, app, calls>>
  \/ \E data \in ImportInputs :
       imp.pc = "idle" /\ handleFileChange(data) /\ pre' = Store /\ UNCHANGED <<exp, fault, app, calls>>
  \/ importDatabase_insert /\ UNCHANGED <<pre, exp, fault, app, calls>>
  \/ \E m \in ReadMonths : getTransactionsByMonth(m) /\ UNCHANGED <<pre, imp, exp, fault, app, calls>>
  \/ \E m \in ReadMonths : getMonthlyBudget(m) /\ UNCHANGED <<pre, imp, exp, fault, app, calls>>

SpecImport == InitStores /\ [][NextImport]_vars

\* ------------------------------------------------------------------------
\* Round trip: the stores hold anything; exportDatabase runs, and the
\* snapshot it returned is imported, with no other write.  pre is the
\* content of the stores when exportDatabase was called.
\* ------------------------------------------------------------------------

NextRoundTrip ==
  \/ exp.pc = "idle" /\ exportDatabase_call /\ pre' = Store /\ UNCHANGED <<imp, fault, app, calls>>
  \/ \E storeName \in { "transactions", "budgets" } :
       exportDatabase_getStoreData(storeName) /\ UNCHANGED <<pre, imp, fault, app, calls>>
  \/ exportDatabase_return /\ UNCHANGED <<pre, imp, fault, app, calls>>
  \/ /\ exp.pc = "returned" /\ imp.pc = "idle"
     /\ importDatabase_clear(exp.snapshot) /\ UNCHANGED <<pre, exp, fault, app, calls>>
  \/ importDatabase_insert /\ UNCHANGED <<pre, exp, fault, app, calls>>

SpecRoundTrip == InitStores /\ [][NextRoundTrip]_vars

\* ------------------------------------------------------------------------
\* Claims about the single-transaction operations (specification Spec)
\* ------------------------------------------------------------------------

\* C4: addTransaction of a Transaction whose id is already stored fails with
\* the engine's duplicate-key error (ConstraintError), and both stores,
\* the stored record of that id included, are what they were before the call.
C4_Uniqueness ==
  (last.op = "addTransaction" /\ Has(pre.tx, last.arg.id)) =>
     /\ last.status = "ConstraintError"
     /\ Store = pre

\* an add of a record that differs from the stored record of the same id
C4_Witness ==
  /\ last.op = "addTransaction"
  /\ Has(pre.tx, last.arg.id)
  /\ pre.tx[last.arg.id] # last.arg
  /\ last.status = "ConstraintError"

\* C5: deleteTransaction of an id that is not stored succeeds and leaves both
\* stores unchanged; after any delete the id is absent, so that a second
\* delete of the same id changes nothing.
C5_IdempotentDelete ==
  last.op = "deleteTransaction" =>
     /\ last.status = "ok"
     /\ ~Has(pre.tx, last.arg) => Store = pre
     /\ ~Has(txStore, last.arg)
     /\ StoreDelete(txStore, last.arg) = txStore

\* a delete of an absent id from a store that holds another record
C5_Witness ==
  /\ last.op = "deleteTransaction"
  /\ ~Has(pre.tx, last.arg)
  /\ pre.tx # EmptyStore
  /\ last.status = "ok"

\* C8: getMonthlyBudget of a month without a MonthlyBudget record resolves
\* with 0 and never rejects, on the empty store as on any other.
C8_BudgetDefault ==
  (last.op = "getMonthlyBudget" /\ ~Has(budgetStore, last.arg)) =>
     /\ last.status = "ok"
     /\ last.value = 0

\* getMonthlyBudget("2099-01") on the empty store
C8_Witness ==
  /\ last.op = "getMonthlyBudget"
  /\ last.arg = MonthToken(2099, 1)
  /\ txStore = EmptyStore
  /\ budgetStore = EmptyStore
  /\ last.value = 0

\* C9: after clearAllData both object stores are empty, the month query
\* resolves with the empty sequence and getMonthlyBudget with 0, for every
\* month, whatever the stores held before.
C9_Clear ==
  last.op = "clearAllData" =>
     /\ last.status = "ok"
     /\ DOMAIN txStore = {}
     /\ DOMAIN budgetStore = {}
     /\ \A m \in Months :
          /\ MonthResults(txStore, m) = { <<>> }
          /\ BudgetResult(budgetStore, m) = 0

\* a clear of stores that held transactions and budgets
C9_Witness ==
  /\ last.op = "clearAllData"
  /\ DOMAIN pre.tx # {}
  /\ DOMAIN pre.budgets # {}
  /\ DOMAIN txStore = {}

\* ------------------------------------------------------------------------
\* The month query on its own: the transactions store holds any records of
\* QueryTransactions, getTransactionsByMonth is called for any month.
\* ------------------------------------------------------------------------

QueryIds == 1..MaxQueryId

\* calendar dates, structured; the store keeps them as "YYYY-MM-DD"
QueryDates ==
  { [y |-> 2023, m |-> 12, d |-> 31], [y |-> 2024, m |-> 2, d |-> 29],
    [y |-> 2024, m |-> 3, d |-> 1],   [y |-> 2024, m |-> 3, d |-> 31],
    [y |-> 2024, m |-> 4, d |-> 30],  [y |-> 2024, m |-> 5, d |-> 10],
    [y |-> 2024, m |-> 5, d |-> 11] }

QueryMonthsYM ==
  { [y |-> 2023, m |-> 12], [y |-> 2024, m |-> 2], [y |-> 2024, m |-> 3],
    [y |-> 2024, m |-> 4],  [y |-> 2024, m |-> 5] }

QueryMonths == { MonthToken(M.y, M.m) : M \in QueryMonthsYM }

Dated(D, time, createdAt) ==
  [description |-> "gasto", amount |-> 1000, method |-> "DEBIT",
   date |-> DateStr(D.y, D.m, D.d), time |-> time, createdAt |-> createdAt]

May10 == [y |-> 2024, m |-> 5, d |-> 10]

May11 == [y |-> 2024, m |-> 5, d |-> 11]

\* the records A, B, C of the ordering example
PayloadA == Dated(May10, TimeStr(9, 0), 100)

PayloadB == Dated(May10, TimeStr(9, 0), 200)

PayloadC == Dated(May11, TimeStr(8, 0), 1)

\* a record without a time, and one with a later time and an older createdAt
PayloadE == Dated(May10, NoTime, 150)

PayloadF == Dated(May10, TimeStr(10, 0), 50)

QueryPayloads ==
  { PayloadA, PayloadB, PayloadC, PayloadE, PayloadF }
  \cup { Dated(D, TimeStr(9, 0), 100) : D \in QueryDates \ { May10, May11 } }

QueryTxStores ==
  { [i \in DOMAIN f |-> Transaction(i, f[i])] : f \in TxStoresOver(QueryIds, QueryPayloads) }

InitQuery ==
  /\ txStore \in QueryTxStores
  /\ budgetStore = EmptyStore
  /\ imp = IdleImp
  /\ exp = IdleExp
  /\ last = NoOutcome
  /\ fault = "none"
  /\ app = IdleApp
  /\ calls = <<>>
  /\ pre = [tx |-> txStore, budgets |-> EmptyStore]

NextQuery ==
  \E m \in QueryMonths : getTransactionsByMonth(m) /\ Called

SpecQuery == InitQuery /\ [][NextQuery]_vars

\* the positions of the result that hold the record of an id
PositionsOf(results, id) == { i \in DOMAIN results : results[i].id = id }

\* C6: getTransactionsByMonth(M) returns a stored Transaction exactly when its
\* date lies in the string range [M-01, M-31], which is exactly when the date
\* is a day of the calendar month M; a returned record appears once, with the
\* fields it is stored with.  2024-02-29 is returned for 2024-02 and not for
\* 2024-03, 2024-04-30 is returned for 2024-04.
C6_MonthMembership ==
  last.op = "getTransactionsByMonth" =>
    \A M \in QueryMonthsYM : last.arg = MonthToken(M.y, M.m) =>
      \A id \in DOMAIN txStore : \A D \in QueryDates :
        txStore[id].date = DateStr(D.y, D.m, D.d) =>
          LET returned == PositionsOf(last.value, id) # {}
              inRange  == InRange(txStore[id].date, DateStr(M.y, M.m, 1), DateStr(M.y, M.m, 31))
              inMonth  == D.y = M.y /\ D.m = M.m
          IN  /\ returned <=> inRange
              /\ inRange <=> inMonth
              /\ returned => Cardinality(PositionsOf(last.value, id)) = 1
              /\ \A i \in PositionsOf(last.value, id) : last.value[i] = txStore[id]

\* the query for 2024-03 over a store with records of 2024-02-29, 2024-03-31
\* and 2024-04-30: only the record of 2024-03-31 is returned
C6_Witness ==
  /\ last.op = "getTransactionsByMonth"
  /\ last.arg = MonthToken(2024, 3)
  /\ \E i, j, k \in DOMAIN txStore :
       /\ txStore[i].date = DateStr(2024, 2, 29)
       /\ txStore[j].date = DateStr(2024, 3, 31)
       /\ txStore[k].date = DateStr(2024, 4, 30)
       /\ Len(last.value) = 1
       /\ last.value[1] = txStore[j]

\* a before b in: date descending, then time descending when both have a
\* non-empty time, then createdAt descending
InListOrder(a, b) ==
  \/ StrCmp(a.date, b.date) > 0
  \/ /\ a.date = b.date
     /\ a.time # NoTime /\ b.time # NoTime /\ a.time # b.time
     /\ StrCmp(a.time, b.time) > 0
  \/ /\ a.date = b.date
     /\ ~(a.time # NoTime /\ b.time # NoTime /\ a.time # b.time)
     /\ a.createdAt >= b.createdAt

\* the store holds exactly the records A, B, C, under any three ids
HoldsABC ==
  /\ Cardinality(DOMAIN txStore) = 3
  /\ \E a, b, c \in DOMAIN txStore :
       /\ txStore[a] = Transaction(a, PayloadA)
       /\ txStore[b] = Transaction(b, PayloadB)
       /\ txStore[c] = Transaction(c, PayloadC)

\* C7: the sequence getTransactionsByMonth returns is sorted by date
\* descending, then by time descending when both records have a non-empty
\* time, then by createdAt descending; for the records A, B, C the result
\* for 2024-05 is [C, B, A].
C7_Ordering ==
  last.op = "getTransactionsByMonth" =>
    /\ \A i, j \in DOMAIN last.value : i < j => InListOrder(last.value[i], last.value[j])
    /\ (HoldsABC /\ last.arg = MonthToken(2024, 5)) =>
         /\ Len(last.value) = 3
         /\ last.value[1].createdAt = 1
         /\ last.value[2].createdAt = 200
         /\ last.value[3].createdAt = 100

\* ------------------------------------------------------------------------
\* Claims about backup and restore
\* ------------------------------------------------------------------------

\* the records of a sequence, as an object store keyed by keyPath would hold
\* them when no two records share a key
AsSet(seq) == { seq[i] : i \in DOMAIN seq }

Records(store) == { store[k] : k \in DOMAIN store }

\* C1: exportDatabase followed by importDatabase of the snapshot it returned,
\* with no other write, ends successfully with both stores equal, key by key
\* and field by field, to what they were when exportDatabase was called.
C1_RoundTrip ==
  (last.op = "importDatabase" /\ imp.pc = "returned") =>
     /\ last.status = "ok"
     /\ last.arg = exp.snapshot
     /\ txStore = pre.tx
     /\ budgetStore = pre.budgets

\* a round trip of stores that held two transactions and two budgets
C1_Witness ==
  /\ last.op = "importDatabase" /\ imp.pc = "returned"
  /\ Cardinality(DOMAIN pre.tx) >= 2
  /\ Cardinality(DOMAIN pre.budgets) >= 2
  /\ Len(last.arg.transactions) >= 2
  /\ txStore = pre.tx

\* the import in flight replaces stores that were not empty by a snapshot
\* that is not empty
ReplacesContent ==
  /\ imp.pc = "cleared"
  /\ PassesValidation(imp.data)
  /\ imp.data.transactions # <<>> /\ imp.data.budgets # <<>>
  /\ AddAll(EmptyStore, imp.data.transactions, "id").ok
  /\ AddAll(EmptyStore, imp.data.budgets, "month").ok
  /\ DOMAIN pre.tx # {} /\ DOMAIN pre.budgets # {}

\* the stores as the snapshot describes them
SnapshotTxStore(data) == AddAll(EmptyStore, data.transactions, "id").store

SnapshotBudgetStore(data) == AddAll(EmptyStore, data.budgets, "month").store

\* C2: a read that runs while importDatabase is in flight sees either the
\* complete content of before the import or the complete content of the
\* snapshot, never stores that are cleared and not yet filled again.
C2_ImportAtomicForReaders ==
  ReplacesContent =>
     /\ last.op = "getMonthlyBudget" =>
          last.value \in { BudgetResult(pre.budgets, last.arg),
                           BudgetResult(SnapshotBudgetStore(imp.data), last.arg) }
     /\ last.op = "getTransactionsByMonth" =>
          last.value \in MonthResults(pre.tx, last.arg)
                           \cup MonthResults(SnapshotTxStore(imp.data), last.arg)

\* C3: importing an object without the transactions or the budgets property
\* fails with an error, and both stores are afterwards what they were before.
C3_ImportValidation ==
  /\ (last.op = "importDatabase" /\ imp.pc = "returned" /\ ~PassesValidation(last.arg)) =>
        /\ last.status # "ok"
        /\ Store = pre
  /\ (last.op = "handleFileChange" /\ ~PassesValidation(last.arg)) =>
        /\ last.status # "ok"
        /\ Store = pre

\* C10: after importDatabase(snapshot) has resolved, the stores hold exactly
\* the records of the snapshot: a record of before whose key is not in the
\* snapshot is gone, and a key of the snapshot holds the snapshot's record.
C10_ImportReplaces ==
  (last.op = "importDatabase" /\ imp.pc = "returned" /\ last.status = "ok") =>
     /\ Records(txStore) = AsSet(last.arg.transactions)
     /\ Records(budgetStore) = AsSet(last.arg.budgets)
     /\ Cardinality(DOMAIN txStore) = Len(last.arg.transactions)
     /\ Cardinality(DOMAIN budgetStore) = Len(last.arg.budgets)
     /\ \A k \in DOMAIN pre.tx :
          (\A i \in DOMAIN last.arg.transactions : last.arg.transactions[i].id # k)
             => ~Has(txStore, k)
     /\ \A k \in DOMAIN pre.budgets :
          (\A i \in DOMAIN last.arg.budgets : last.arg.budgets[i].month # k)
             => ~Has(budgetStore, k)
     /\ \A i \in DOMAIN last.arg.transactions :
          txStore[last.arg.transactions[i].id] = last.arg.transactions[i]
     /\ \A i \in DOMAIN last.arg.budgets :
          budgetStore[last.arg.budgets[i].month] = last.arg.budgets[i]

\* an import over stores that held a transaction the snapshot does not have
\* and a transaction whose id the snapshot has with other fields
C10_Witness ==
  /\ last.op = "importDatabase" /\ imp.pc = "returned" /\ last.status = "ok"
  /\ \E k \in DOMAIN pre.tx : ~Has(txStore, k)
  /\ \E k \in DOMAIN pre.tx : Has(txStore, k) /\ txStore[k] # pre.tx[k]
  /\ \E m \in DOMAIN pre.budgets : Has(budgetStore, m) /\ budgetStore[m] # pre.budgets[m]

\* the records of a store whose key is k
RecordsOfKey(store, k) == { j \in DOMAIN store : j = k }

\* C11: updateTransaction(t) succeeds whether or not t.id is stored; after it
\* the store holds exactly one record of id t.id, its fields are those of t,
\* and the records of the other ids and the budgets are what they were.
C11_UpsertOnUpdate ==
  last.op = "updateTransaction" =>
     /\ last.status = "ok"
     /\ Cardinality(RecordsOfKey(txStore, last.arg.id)) = 1
     /\ txStore[last.arg.id] = last.arg
     /\ \A id \in Ids \ {last.arg.id} :
          /\ Has(txStore, id) = Has(pre.tx, id)
          /\ Has(txStore, id) => txStore[id] = pre.tx[id]
     /\ budgetStore = pre.budgets

\* an update of an id that is not stored, next to a stored record of another id
C11_Witness ==
  /\ last.op = "updateTransaction"
  /\ ~Has(pre.tx, last.arg.id)
  /\ pre.tx # EmptyStore
  /\ Has(txStore, last.arg.id)
  /\ last.status = "ok"

\* C12: setMonthlyBudget({month: M, limit: L}) always succeeds, as an upsert:
\* after it the budgets store holds one record of month M, with limit L,
\* whatever it held for M before, and a getMonthlyBudget(M) called next
\* resolves with L.  Every record of the budgets store is stored under its
\* own month, so that a month never has two budgets.
C12_BudgetUpsert ==
  /\ \A m \in DOMAIN budgetStore : budgetStore[m].month = m
  /\ last.op = "setMonthlyBudget" =>
       /\ last.status = "ok"
       /\ Cardinality(RecordsOfKey(budgetStore, last.arg.month)) = 1
       /\ budgetStore[last.arg.month] = last.arg
       /\ BudgetResult(budgetStore, last.arg.month) = last.arg.limit
       /\ \A m \in DOMAIN pre.budgets \ {last.arg.month} :
            Has(budgetStore, m) /\ budgetStore[m] = pre.budgets[m]
  /\ (last.op = "getMonthlyBudget" /\ Has(pre.budgets, last.arg)) =>
       /\ last.status = "ok"
       /\ last.value = pre.budgets[last.arg].limit

\* a budget set over a stored budget of the same month with another limit
C12_Witness ==
  /\ last.op = "setMonthlyBudget"
  /\ Has(pre.budgets, last.arg.month)
  /\ pre.budgets[last.arg.month].limit # last.arg.limit
  /\ budgetStore[last.arg.month].limit = last.arg.limit

\* ------------------------------------------------------------------------
\* Money typed in the forms.  A number of the code is its count of
\* hundredths (12.50 is 1250); the strings of the forms carry at most two
\* fraction digits, which is what parseInt(value, 10) / 100 formats to.
\* ------------------------------------------------------------------------

Comma == <<44>>

Dot == <<46>>

Plus == <<43>>

IsDigit(c) == c \in 48..57

RECURSIVE DigitPrefix(_)
\* the longest prefix of s made of decimal digits
DigitPrefix(s) ==
  IF s = <<>> \/ ~IsDigit(Head(s)) THEN <<>> ELSE <<Head(s)>> \o DigitPrefix(Tail(s))

RECURSIVE DigitsValue(_)
\* the number a string of decimal digits denotes
DigitsValue(ds) ==
  IF ds = <<>> THEN 0 ELSE DigitsValue(Front(ds)) * 10 + (ds[Len(ds)] - 48)

RECURSIVE IntDigits(_)
\* the decimal digits of a natural number
IntDigits(n) ==
  IF n < 10 THEN <<Digit(n)>> ELSE IntDigits(n \div 10) \o <<Digit(n % 10)>>

RECURSIVE Grouped(_)
\* the pt-BR grouping of the integer digits: a dot before every third digit
Grouped(ds) ==
  IF Len(ds) <= 3 THEN ds
  ELSE Grouped(SubSeq(ds, 1, Len(ds) - 3)) \o Dot \o SubSeq(ds, Len(ds) - 2, Len(ds))

\* value.replace(/\D/g, '')
DigitsOnly(s) == SelectSeq(s, IsDigit)

\* s.replace(/\./g, '')
RemoveDots(s) == SelectSeq(s, LAMBDA c : c # Dot[1])

RECURSIVE ReplaceComma(_)
\* s.replace(',', '.'): the first comma only
ReplaceComma(s) ==
  IF s = <<>> THEN <<>>
  ELSE IF Head(s) = Comma[1] THEN Dot \o Tail(s)
  ELSE <<Head(s)>> \o ReplaceComma(Tail(s))

\* parseInt(value, 10) of a string of digits
parseInt(value) == DigitsValue(value)

\* n.toLocaleString('pt-BR', { minimumFractionDigits: 2 }), n in hundredths
toLocaleString(n) ==
  LET mag == IF n < 0 THEN 0 - n ELSE n
  IN  (IF n < 0 THEN Dash ELSE <<>>) \o Grouped(IntDigits(mag \div 100)) \o Comma \o Pad2(mag % 100)

\* parseFloat(s), in hundredths: an optional sign, the integer digits, and
\* the fraction digits after a dot; NaN when there is no digit to read
parseFloat(s) ==
  LET signed == s # <<>> /\ (Head(s) = Dash[1] \/ Head(s) = Plus[1])
      body == IF signed THEN Tail(s) ELSE s
      int == DigitPrefix(body)
      rest == SubSeq(body, Len(int) + 1, Len(body))
      frac == IF rest # <<>> /\ Head(rest) = Dot[1] THEN DigitPrefix(Tail(rest)) ELSE <<>>
      tenths == IF Len(frac) >= 1 THEN frac[1] - 48 ELSE 0
      hundredths == IF Len(frac) >= 2 THEN frac[2] - 48 ELSE 0
      mag == DigitsValue(int) * 100 + tenths * 10 + hundredths
  IN  [isNaN |-> int = <<>> /\ frac = <<>>,
       val |-> IF signed /\ Head(s) = Dash[1] THEN 0 - mag ELSE mag]

\* what the user types in a money field: "", "0", "-500", "125050"
TypedValues ==
  { <<>>, <<Digit(0)>>, Dash \o <<Digit(5), Digit(0), Digit(0)>>,
    <<Digit(1), Digit(2), Digit(5), Digit(0), Digit(5), Digit(0)>> }

\* the field's state after handleEditChange / handleAmountChange of a typed value
MaskedValue(typed) ==
  LET value == DigitsOnly(typed)
  IN  IF value = <<>> THEN <<>> ELSE toLocaleString(parseInt(value))

\* ------------------------------------------------------------------------
\* The monthly limit: Summary.handleSave, App.handleUpdateLimit,
\* db.setMonthlyBudget, and a backup file that carries a budget
\* ------------------------------------------------------------------------

\* the limits a caller or a backup file can carry
AnyLimits == Limits \cup { 0 - 500 }

AnyBudgets == { MonthlyBudget(m, l) : m \in BudgetMonths, l \in AnyLimits }

\* editValue: what handleEditChange leaves, or handleEditStart's formatting
\* of the limit on display
EditValues ==
  { MaskedValue(typed) : typed \in TypedValues } \cup { toLocaleString(l) : l \in AnyLimits }

handleUpdateLimit(currentMonth, newLimit) ==
  setMonthlyBudget(MonthlyBudget(currentMonth, newLimit))

handleSave(currentMonth, editValue) ==
  LET rawValue == ReplaceComma(RemoveDots(editValue))
      parsed == parseFloat(rawValue)
  IN  IF editValue # <<>> /\ ~parsed.isNaN /\ parsed.val >= 0
        THEN handleUpdateLimit(currentMonth, parsed.val)
        ELSE /\ last' = Outcome("handleSave", editValue, "ignored", NoValue)
             /\ UNCHANGED <<txStore, budgetStore>>

\* backup files that hold one budget and no transaction
BudgetSnapshots == { Snapshot(BackupKeys, <<>>, <<b>>) : b \in AnyBudgets }

InitBudget == Init

NextBudget ==
  \/ \E m \in BudgetMonths, v \in EditValues : handleSave(m, v) /\ Called
  \/ \E b \in AnyBudgets : setMonthlyBudget(b) /\ Called
  \/ \E m \in BudgetMonths : getMonthlyBudget(m) /\ Called
  \/ \E data \in BudgetSnapshots :
       handleFileChange(data) /\ pre' = Store /\ UNCHANGED <<exp, fault, app, calls>>
  \/ importDatabase_insert /\ UNCHANGED <<pre, exp, fault, app, calls>>

SpecBudget == InitBudget /\ [][NextBudget]_vars

\* C13: a setMonthlyBudget whose limit is negative is rejected and leaves the
\* stores unchanged, and no budget of the store has a negative limit.
C13_NegativeBudgetRejected ==
  /\ \A m \in DOMAIN budgetStore : budgetStore[m].limit >= 0
  /\ (last.op = "setMonthlyBudget" /\ last.arg.limit < 0) =>
       /\ last.status # "ok"
       /\ Store = pre

\* ------------------------------------------------------------------------
\* Storage failures.  IndexedDB can fail a transaction of its own accord
\* (quota, disk, engine error) in two ways: while a request of the
\* transaction is not yet processed, which fires an error event at the
\* request, lets it bubble to the transaction and aborts the transaction
\* ("request"); or when it commits, after every request has succeeded, which
\* fires an abort event at the transaction and no error event ("commit").
\* An aborted transaction writes nothing.  fault is what happened to the
\* transaction of the last step.
\* ------------------------------------------------------------------------

Faults == { "none", "request", "commit" }

\* a read-only transaction has nothing to commit
ReadFaults == { "none", "request" }


\* the promise of a single request whose onerror handler resolves
onRequestSwallowed(f, op, arg, succeeds, status) ==
  /\ fault' = f
  /\ IF f = "none"
       THEN succeeds
       ELSE /\ last' = Outcome(op, arg, IF f = "request" THEN "ok" ELSE status, NoValue)
            /\ UNCHANGED <<txStore, budgetStore>>

\* the promise of the functions of db.ts that make one request:
\* request.onsuccess resolves it and request.onerror rejects it with
\* request.error.  succeeds is the step without a storage failure and status
\* the outcome of the request in it.
onRequest(f, op, arg, succeeds, status) ==
  /\ fault' = f
  /\ IF f = "none"
       THEN succeeds
       ELSE /\ last' = Outcome(op, arg, IF f = "request" THEN "StorageError" ELSE status, NoValue)
            /\ UNCHANGED <<txStore, budgetStore>>

addTransaction_fault(t, f) ==
  onRequest(f, "addTransaction", t, addTransaction(t),
            IF Has(txStore, t.id) THEN "ConstraintError" ELSE "ok")

updateTransaction_fault(t, f) ==
  onRequest(f, "updateTransaction", t, updateTransaction(t), "ok")

deleteTransaction_fault(id, f) ==
  onRequest(f, "deleteTransaction", id, deleteTransaction(id), "ok")

setMonthlyBudget_fault(budget, f) ==
  onRequest(f, "setMonthlyBudget", budget, setMonthlyBudget(budget), "ok")

getTransactionsByMonth_fault(month, f) ==
  onRequest(f, "getTransactionsByMonth", month, getTransactionsByMonth(month), "ok")

getMonthlyBudget_fault(month, f) ==
  onRequest(f, "getMonthlyBudget", month, getMonthlyBudget(month), "ok")


\* the promise of a transaction whose onerror handler resolves
onTransactionSwallowed(f, op, arg, succeeds) ==
  /\ fault' = f
  /\ IF f = "none"
       THEN succeeds
       ELSE /\ last' = Outcome(op, arg, IF f = "request" THEN "ok" ELSE "pending", NoValue)
            /\ UNCHANGED <<txStore, budgetStore>>

\* the promise of clearAllData and importDatabase: tx.oncomplete resolves
\* it and tx.onerror rejects it with tx.error; no handler sees the abort
\* event, so that after a failed commit the promise stays pending
onTransaction(f, op, arg, succeeds) ==
  /\ fault' = f
  /\ IF f = "none"
       THEN succeeds
       ELSE /\ last' = Outcome(op, arg, IF f = "request" THEN "StorageError" ELSE "pending", NoValue)
            /\ UNCHANGED <<txStore, budgetStore>>

clearAllData_fault(f) == onTransaction(f, "clearAllData", NoValue, clearAllData)

\* the getAll request of one of the two transactions of exportDatabase: its
\* promise has an onsuccess handler only, so that after a failed request it
\* stays pending, and Promise.all with it
exportDatabase_getStoreData_fault(storeName, f) ==
  /\ fault' = f
  /\ IF f = "none"
       THEN exportDatabase_getStoreData(storeName)
       ELSE /\ exp.pc = "reading"
            /\ storeName \notin exp.got
            /\ exp' = [pc |-> "stuck"]
            /\ UNCHANGED <<txStore, budgetStore, last>>

\* the first transaction of importDatabase, the one of clearAllData: when
\* its promise rejects, "await clearAllData()" throws and importDatabase
\* rejects; when it stays pending so does importDatabase
importDatabase_clear_fault(data, f) ==
  /\ onTransaction(f, "importDatabase", data, importDatabase_clear(data))
  /\ f = "request" => imp' = [pc |-> "returned"]
  /\ f = "commit" => imp' = [pc |-> "stuck"]

\* the number of add requests of the second transaction of importDatabase
AddRequests(data) == Len(data.transactions) + Len(data.budgets)

\* the second transaction of importDatabase.  A request can fail only when
\* there is one; a failed commit comes after every add has succeeded.
importDatabase_insert_fault(f) ==
  /\ imp.pc = "cleared"
  /\ f = "request" => AddRequests(imp.data) > 0
  /\ f = "commit" => AddAll(txStore, imp.data.transactions, "id").ok
                       /\ AddAll(budgetStore, imp.data.budgets, "month").ok
  /\ onTransaction(f, "importDatabase", imp.data, importDatabase_insert)
  /\ f = "request" => imp' = [pc |-> "returned"]
  /\ f = "commit" => imp' = [pc |-> "stuck"]

\* ------------------------------------------------------------------------
\* The record store under storage failures: every function of db.ts, one
\* call after the other, and at the end one exportDatabase
\* ------------------------------------------------------------------------

InitFaults == Init

CalledFault == pre' = Store /\ UNCHANGED <<imp, exp, app, calls>>

NextFaults ==
  \/ \E t \in Transactions, f \in Faults :
       exp.pc = "idle" /\ addTransaction_fault(t, f) /\ CalledFault
  \/ \E t \in Transactions, f \in Faults :
       exp.pc = "idle" /\ updateTransaction_fault(t, f) /\ CalledFault
  \/ \E id \in Ids, f \in Faults :
       exp.pc = "idle" /\ deleteTransaction_fault(id, f) /\ CalledFault
  \/ \E b \in Budgets, f \in Faults :
       exp.pc = "idle" /\ setMonthlyBudget_fault(b, f) /\ CalledFault
  \/ \E m \in Months, f \in ReadFaults :
       exp.pc = "idle" /\ getTransactionsByMonth_fault(m, f) /\ CalledFault
  \/ \E m \in Months, f \in ReadFaults :
       exp.pc = "idle" /\ getMonthlyBudget_fault(m, f) /\ CalledFault
  \/ \E f \in Faults :
       exp.pc = "idle" /\ clearAllData_fault(f) /\ CalledFault
  \/ exp.pc = "idle" /\ exportDatabase_call /\ pre' = Store /\ UNCHANGED <<imp, fault, app, calls>>
  \/ \E storeName \in {"transactions", "budgets"}, f \in ReadFaults :
       exportDatabase_getStoreData_fault(storeName, f) /\ UNCHANGED <<pre, imp, app, calls>>
  \/ exportDatabase_return /\ UNCHANGED <<pre, imp, fault, app, calls>>

SpecFaults == InitFaults /\ [][NextFaults]_vars

\* ------------------------------------------------------------------------
\* Import under storage failures: the stores hold anything and one
\* importDatabase of a well-formed backup runs
\* ------------------------------------------------------------------------

NextImportFaults ==
  \/ \E data \in ValidSnapshots, f \in Faults :
       imp.pc = "idle" /\ importDatabase_clear_fault(data, f) /\ pre' = Store /\ UNCHANGED <<exp, app, calls>>
  \/ \E f \in Faults : importDatabase_insert_fault(f) /\ UNCHANGED <<pre, exp, app, calls>>

SpecImportFaults == InitStores /\ [][NextImportFaults]_vars

WriteOps == { "addTransaction", "updateTransaction", "deleteTransaction", "setMonthlyBudget" }

DistinctKeys(recs, keyPath) ==
  \A i, j \in DOMAIN recs : KeyOf(recs[i], keyPath) = KeyOf(recs[j], keyPath) => i = j

HasDuplicateKeys(data) ==
  ~DistinctKeys(data.transactions, "id") \/ ~DistinctKeys(data.budgets, "month")

\* C15: importDatabase of a snapshot that holds two Transactions of one id or
\* two MonthlyBudgets of one month rejects with an error (the engine's
\* ConstraintError); it never resolves, so the two records are never merged
\* into one, and none of the snapshot's records is stored.
C15_DuplicateKeysRejected ==
  (/\ last.op = "importDatabase"
   /\ imp.pc = "returned"
   /\ PassesValidation(last.arg)
   /\ HasDuplicateKeys(last.arg)) =>
     /\ last.status = "ConstraintError"
     /\ txStore = EmptyStore
     /\ budgetStore = EmptyStore

\* an import of two budgets of one month with different limits
C15_Witness ==
  /\ last.op = "importDatabase"
  /\ imp.pc = "returned"
  /\ PassesValidation(last.arg)
  /\ Len(last.arg.budgets) = 2
  /\ last.arg.budgets[1].month = last.arg.budgets[2].month
  /\ last.arg.budgets[1].limit # last.arg.budgets[2].limit
  /\ last.status = "ConstraintError"

FormDescriptions == { "", "mercado" }

FormDates == { <<>>, Feb29 }

FormTimes == { <<>>, TimeStr(9, 0) }

\* Date.now()
Nows == { 100, 200 }

\* initialData: no Transaction, or the stored Transaction under edit
InitialDatas == { {} } \cup { {t} : t \in Records(txStore) }

\* the amount field after handleAmountChange of a typed value
handleAmountChange(typed) == MaskedValue(typed)

\* the amount field: what handleAmountChange leaves, or the formatted amount
\* of the Transaction under edit
FormAmounts(initialData) ==
  { handleAmountChange(typed) : typed \in TypedValues }
    \cup { toLocaleString(t.amount) : t \in initialData }

\* transactions.find(t => t.id === id): the record of the list on display,
\* when the list holds one of that id
Originals(initialData) ==
  { {} } \cup { {txStore[t.id]} : t \in { u \in initialData : Has(txStore, u.id) } }

\* crypto.randomUUID() gives an id that no record has, Date.now() the time
handleAddTransaction(data) ==
  \E id \in Ids \ DOMAIN txStore, now \in Nows :
    addTransaction([id |-> id, description |-> data.description, amount |-> data.amount,
                    method |-> data.method, date |-> data.date, time |-> data.time,
                    createdAt |-> now])

handleUpdateTransaction(id, data, original) ==
  \E createdAt \in IF original = {} THEN Nows ELSE { o.createdAt : o \in original } :
    updateTransaction([id |-> id, description |-> data.description, amount |-> data.amount,
                       method |-> data.method, date |-> data.date, time |-> data.time,
                       createdAt |-> createdAt])


\* handleSubmit without the test val <= 0
handleSubmitAnySign(form, original) ==
  LET rawValue == ReplaceComma(RemoveDots(form.amount))
      parsed   == parseFloat(rawValue)
      formData == [description |-> form.description, amount |-> parsed.val,
                   method |-> form.method, date |-> form.date, time |-> form.time]
  IN  IF \/ form.description = "" \/ form.amount = <<>>
         \/ form.date = <<>> \/ form.time = <<>>
         \/ parsed.isNaN
        THEN /\ last' = Outcome("handleSubmit", form, "ignored", NoValue)
             /\ UNCHANGED <<txStore, budgetStore>>
        ELSE IF form.initialData # {}
          THEN \E t \in form.initialData : handleUpdateTransaction(t.id, formData, original)
          ELSE handleAddTransaction(formData)

handleSubmit(form, original) ==
  LET rawValue == ReplaceComma(RemoveDots(form.amount))
      parsed   == parseFloat(rawValue)
      formData == [description |-> form.description, amount |-> parsed.val,
                   method |-> form.method, date |-> form.date, time |-> form.time]
  IN  IF \/ form.description = "" \/ form.amount = <<>>
         \/ form.date = <<>> \/ form.time = <<>>
         \/ parsed.isNaN \/ parsed.val <= 0
        THEN /\ last' = Outcome("handleSubmit", form, "ignored", NoValue)
             /\ UNCHANGED <<txStore, budgetStore>>
        ELSE IF form.initialData # {}
          THEN \E t \in form.initialData : handleUpdateTransaction(t.id, formData, original)
          ELSE handleAddTransaction(formData)

\* the states of the form at a submit
Forms ==
  UNION { [description : FormDescriptions, amount : FormAmounts(initialData),
           method : {"DEBIT"}, date : FormDates, time : FormTimes,
           initialData : {initialData}] : initialData \in InitialDatas }

InitForm == Init

NextForm ==
  \/ \E form \in Forms :
       \E original \in Originals(form.initialData) :
         handleSubmit(form, original) /\ Called
  \/ \E id \in Ids : deleteTransaction(id) /\ Called

SpecForm == InitForm /\ [][NextForm]_vars

\* C17: a submit whose amount is zero or negative stops before any call of
\* db.ts and leaves the stores unchanged; every addTransaction and
\* updateTransaction that a submit makes carries an amount > 0, and after any
\* sequence of submits every stored Transaction has an amount > 0.
C17_PositiveAmount ==
  /\ \A id \in DOMAIN txStore : txStore[id].amount > 0
  /\ last.op \in {"addTransaction", "updateTransaction"} => last.arg.amount > 0
  /\ last.op = "handleSubmit" => (last.status = "ignored" /\ Store = pre)

\* a submit of the complete form with the amount "0,00" over a stored Transaction
C17_Witness ==
  /\ last.op = "handleSubmit"
  /\ last.arg.description # "" /\ last.arg.date # <<>> /\ last.arg.time # <<>>
  /\ last.arg.amount = toLocaleString(0)
  /\ parseFloat(ReplaceComma(RemoveDots(last.arg.amount))).val = 0
  /\ txStore # EmptyStore
  /\ Store = pre

\* C18: exportDatabase resolves with a snapshot of version 1 whose
\* transactions are exactly the stored Transactions and whose budgets are
\* exactly the stored MonthlyBudgets, each once and with its stored fields,
\* and the stores are what they were when it was called.
C18_FaithfulExport ==
  (last.op = "exportDatabase" /\ last.status = "ok") =>
     /\ last.value.version = 1
     /\ last.value.keys = BackupKeys
     /\ AsSet(last.value.transactions) = Records(pre.tx)
     /\ Len(last.value.transactions) = Cardinality(DOMAIN pre.tx)
     /\ AsSet(last.value.budgets) = Records(pre.budgets)
     /\ Len(last.value.budgets) = Cardinality(DOMAIN pre.budgets)
     /\ Store = pre

\* an export of stores that hold two Transactions and two budgets
C18_Witness ==
  /\ last.op = "exportDatabase"
  /\ last.status = "ok"
  /\ Len(last.value.transactions) = 2
  /\ Len(last.value.budgets) = 2
  /\ Store = pre

\* the "YYYY-MM" of a date "YYYY-MM-DD"
MonthOf(date) == SubSeq(date, 1, 7)

HoldsId(results, id) == \E i \in DOMAIN results : results[i].id = id

\* C19: every result a getTransactionsByMonth called next can resolve with
\* reflects the last write.  After a successful addTransaction(t) the query
\* of t's month holds t; after updateTransaction(t) the query of the month
\* of t's date holds t with its new fields and the query of any other month,
\* the month of the old date included, holds no record of that id; after
\* deleteTransaction(id) no month's query holds a record of that id.
C19_ReadYourWrites ==
  /\ (last.op = "addTransaction" /\ last.status = "ok") =>
       \A results \in MonthResults(txStore, MonthOf(last.arg.date)) :
         last.arg \in Range(results)
  /\ last.op = "updateTransaction" =>
       /\ \A results \in MonthResults(txStore, MonthOf(last.arg.date)) :
            /\ last.arg \in Range(results)
            /\ Cardinality(PositionsOf(results, last.arg.id)) = 1
       /\ \A m \in Months \ {MonthOf(last.arg.date)} :
            \A results \in MonthResults(txStore, m) : ~HoldsId(results, last.arg.id)
  /\ last.op = "deleteTransaction" =>
       \A m \in Months : \A results \in MonthResults(txStore, m) : ~HoldsId(results, last.arg)

\* an update that moves a stored Transaction from one month to another
C19_Witness ==
  /\ last.op = "updateTransaction"
  /\ Has(pre.tx, last.arg.id)
  /\ MonthOf(pre.tx[last.arg.id].date) # MonthOf(last.arg.date)
  /\ \A results \in MonthResults(txStore, MonthOf(pre.tx[last.arg.id].date)) :
       ~HoldsId(results, last.arg.id)
  /\ \A results \in MonthResults(txStore, MonthOf(last.arg.date)) :
       last.arg \in Range(results)

\* C20: a call of db.ts that has not settled still has a step to take: a
\* pending call is an exportDatabase whose reads are under way.  In
\* particular, once the engine has failed a request or aborted the
\* transaction of a call, the call has resolved or rejected.
C20_ExactlyOnceCompletion ==
  last.status = "pending" => (last.op = "exportDatabase" /\ exp.pc = "reading")

\* the records of the store that the month query hands to the sort
MonthRecords(store, month) ==
  IndexGetAll(store, month \o Dash \o Pad2(1), month \o Dash \o Pad2(31))

\* no two records of the set were created in the same millisecond
DistinctCreatedAt(recs) == \A a, b \in recs : a.createdAt = b.createdAt => a = b

\* C21: on the records of a month, created at pairwise different times, the
\* comparator of getTransactionsByMonth is a total order: it is consistent
\* (antisymmetric and transitive) and ties no two different records, and so
\* the sorted sequence is one and the same for every order in which the
\* records reach the sort, also when some records of a date have an empty
\* time and others do not.
C21_TotalOrder ==
  \A m \in QueryMonths :
    LET recs == MonthRecords(txStore, m)
    IN  DistinctCreatedAt(Range(recs)) =>
          /\ ConsistentOn(Range(recs))
          /\ \A a, b \in Range(recs) : Compare(a, b) = 0 => a = b
          /\ \A handed \in Orderings(recs) :
               SortOutcomes(handed) = { StableSort(recs) }

\* the backup with both lists present and empty
EmptySnapshot == Snapshot(BackupKeys, <<>>, <<>>)

\* C24: the snapshot whose transactions and budgets are both present and both
\* empty passes the validation of handleFileChange, which never rejects it,
\* and its import resolves and leaves both stores empty.
C24_EmptySnapshotAccepted ==
  /\ PassesValidation(EmptySnapshot)
  /\ last.op = "handleFileChange" => last.arg # EmptySnapshot
  /\ (last.op = "importDatabase" /\ last.arg = EmptySnapshot /\ imp.pc = "returned") =>
       /\ last.status = "ok"
       /\ txStore = EmptyStore
       /\ budgetStore = EmptyStore

\* the empty snapshot imported over stores that held records
C24_Witness ==
  /\ last.op = "importDatabase"
  /\ last.arg = EmptySnapshot
  /\ imp.pc = "returned"
  /\ last.status = "ok"
  /\ pre.tx # EmptyStore /\ pre.budgets # EmptyStore
  /\ txStore = EmptyStore /\ budgetStore = EmptyStore

\* the write of the last call is in the stores
Persisted ==
  CASE last.op \in {"addTransaction", "updateTransaction"} ->
         Has(txStore, last.arg.id) /\ txStore[last.arg.id] = last.arg
    [] last.op = "deleteTransaction" -> ~Has(txStore, last.arg)
    [] last.op = "setMonthlyBudget" ->
         Has(budgetStore, last.arg.month) /\ budgetStore[last.arg.month] = last.arg
    [] OTHER -> TRUE

\* C25: when addTransaction, updateTransaction, deleteTransaction or
\* setMonthlyBudget has resolved, its transaction has committed and its write
\* is in the store.
C25_SuccessImpliesPersisted ==
  (last.op \in WriteOps /\ last.status = "ok") => (fault = "none" /\ Persisted)

\* ------------------------------------------------------------------------
\* C30: what a single-record operation leaves alone
\* ------------------------------------------------------------------------

\* the records of every key but key are the same in both stores
SameBut(store, before, key) ==
  /\ DOMAIN store \ {key} = DOMAIN before \ {key}
  /\ \A k \in DOMAIN store \ {key} : store[k] = before[k]

\* C30: addTransaction, updateTransaction and deleteTransaction leave every
\* MonthlyBudget and every Transaction of another id as they were when the
\* operation was called; setMonthlyBudget leaves every Transaction and the
\* budget of every other month as they were; getTransactionsByMonth,
\* getMonthlyBudget and exportDatabase leave both stores as they were.
C30_Frame ==
  /\ last.op \in {"addTransaction", "updateTransaction"} =>
       /\ budgetStore = pre.budgets
       /\ SameBut(txStore, pre.tx, last.arg.id)
  /\ last.op = "deleteTransaction" =>
       /\ budgetStore = pre.budgets
       /\ SameBut(txStore, pre.tx, last.arg)
  /\ last.op = "setMonthlyBudget" =>
       /\ txStore = pre.tx
       /\ SameBut(budgetStore, pre.budgets, last.arg.month)
  /\ last.op \in {"getTransactionsByMonth", "getMonthlyBudget", "exportDatabase"} =>
       Store = pre

\* a Transaction was deleted from a store that held another Transaction and
\* a budget, and both are still there
C30_Witness ==
  /\ last.op = "deleteTransaction"
  /\ last.status = "ok"
  /\ fault = "none"
  /\ Has(pre.tx, last.arg)
  /\ ~Has(txStore, last.arg)
  /\ DOMAIN txStore # {}
  /\ DOMAIN budgetStore # {}

\* ------------------------------------------------------------------------
\* Handler calls that await the engine
\*
\* A function of db.ts awaits openDB() and then creates its transaction;
\* the open requests are served in the order they are made, so that the
\* transactions are created in the order of the calls.  The engine starts
\* a transaction when no transaction created before it is live over one of
\* its object stores, read-only transactions excepted among themselves.
\* The step in which the request of a transaction succeeds runs the rest
\* of the handler that awaits it (the code that follows its await).
\* ------------------------------------------------------------------------

StoreNames == { "transactions", "budgets" }

\* what a handler keeps of the render it was created in
Closure == [currentMonth |-> app.currentMonth, editingTransaction |-> app.editingTransaction]

\* a call of op(arg) made by a handler, with the answers it has so far
Call(op, arg, closure) ==
  [op |-> op, arg |-> arg, closure |-> closure,
   got |-> {}, transactions |-> <<>>, budgets |-> <<>>, limit |-> 0]

\* the calls that make one read-only transaction per object store
ReadOps == { "loadData", "exportDatabase" }

\* the object stores of the read-write transaction a handler awaits: the one
\* of addTransaction, updateTransaction, deleteTransaction or
\* setMonthlyBudget, or else the two of clearAllData and importDatabase
Scope(op) ==
  CASE op \in { "handleAddTransaction", "handleUpdateTransaction",
                "handleDeleteTransaction" } -> { "transactions" }
    [] op = "handleUpdateLimit" -> { "budgets" }
    [] OTHER -> StoreNames

\* the transactions of a call that have not finished
Live(call) ==
  IF call.op \in ReadOps
    THEN { [scope |-> {s}, mode |-> "readonly"] : s \in StoreNames \ call.got }
    ELSE { [scope |-> Scope(call.op), mode |-> "readwrite"] }

\* an engine that starts the transactions in any order
CanStartAnyOrder(i, scope, mode) == i \in 1..Len(calls)

\* the engine can start a transaction of the i-th call
CanStart(i, scope, mode) ==
  \A j \in 1..(i - 1) :
    \A t \in Live(calls[j]) :
      t.scope \cap scope = {} \/ (t.mode = "readonly" /\ mode = "readonly")

Remove(seq, i) == SubSeq(seq, 1, i - 1) \o SubSeq(seq, i + 1, Len(seq))

\* loadData of the render whose currentMonth is month, up to its await
loadData(month) == Call("loadData", month, [currentMonth |-> month, editingTransaction |-> {}])

\* one of the two reads of the i-th call, a loadData, succeeds; with the
\* second one Promise.all resolves and the list, the budget and isLoading
\* are set
loadData_resolve(i, storeName) ==
  /\ i \in 1..Len(calls)
  /\ calls[i].op = "loadData"
  /\ storeName \notin calls[i].got
  /\ CanStart(i, {storeName}, "readonly")
  /\ \E txs \in IF storeName = "transactions"
                  THEN MonthResults(txStore, calls[i].arg) ELSE { calls[i].transactions } :
       LET call == [calls[i] EXCEPT
                      !.got = @ \cup {storeName},
                      !.transactions = txs,
                      !.limit = IF storeName = "budgets"
                                  THEN BudgetResult(budgetStore, calls[i].arg) ELSE @]
       IN  IF call.got = StoreNames
             THEN /\ app' = [app EXCEPT !.transactions = call.transactions,
                                        !.budget = call.limit,
                                        !.isLoading = FALSE]
                  /\ calls' = Remove(calls, i)
             ELSE /\ calls' = [calls EXCEPT ![i] = call]
                  /\ UNCHANGED app
  /\ UNCHANGED <<txStore, budgetStore, last>>

\* ------------------------------------------------------------------------
\* changeMonth
\* ------------------------------------------------------------------------

\* currentMonth.split('-').map(Number)
SplitMonth(token) ==
  [year |-> DigitsValue(SubSeq(token, 1, 4)), month |-> DigitsValue(SubSeq(token, 6, 7))]

\* new Date(year, monthIndex, 1): midnight of the first day of the month in
\* the time zone of the host; a month index outside 0..11 is carried into
\* the year.  month counts the months from year 0, minute the minutes from
\* the start of the first day.
LocalDate(year, monthIndex) == [month |-> year * 12 + monthIndex, minute |-> 0]

\* date.toISOString().slice(0, 7): the year and month of the instant in UTC,
\* where the UTC time is the local time plus getTimezoneOffset() minutes; a
\* first day that started the evening before in UTC is in the month before
toISOMonth(date, timezoneOffset) ==
  LET utcMinute == date.minute + timezoneOffset
      utcMonth  == IF utcMinute < 0 THEN date.month - 1 ELSE date.month
  IN  MonthToken(utcMonth \div 12, (utcMonth % 12) + 1)

\* newMonthStr of changeMonth
NewMonthStr(currentMonth, offset, timezoneOffset) ==
  LET parts == SplitMonth(currentMonth)
  IN  toISOMonth(LocalDate(parts.year, parts.month - 1 + offset), timezoneOffset)

\* changeMonth(offset), and the effect that calls the loadData of the new
\* month after the render
changeMonth(offset) ==
  LET newMonthStr == NewMonthStr(app.currentMonth, offset, app.timezoneOffset)
      moved       == newMonthStr # app.currentMonth
  IN  /\ app' = [app EXCEPT !.currentMonth = newMonthStr,
                            !.editingTransaction = {},
                            !.isLoading = IF moved THEN TRUE ELSE @]
      /\ calls' = IF moved THEN Append(calls, loadData(newMonthStr)) ELSE calls
      /\ last' = Outcome("changeMonth", [offset |-> offset, from |-> app.currentMonth], "ok",
                         IF last.op = "changeMonth" THEN last.arg
                                                    ELSE [offset |-> 0, from |-> app.currentMonth])
      /\ UNCHANGED <<txStore, budgetStore>>

\* ------------------------------------------------------------------------
\* Month navigation on its own: the component is mounted on a month of the
\* year of NavYears in one of the time zones, and the header buttons are
\* clicked at any moment.
\* ------------------------------------------------------------------------

\* getTimezoneOffset() in Sao Paulo, in UTC and in Lisbon's summer / Paris
TimezoneOffsets == { 180, 0, 0 - 60 }

NavYears == { 2024 }

\* the component after its first render and the effect that calls loadData
Mounted(currentMonth, timezoneOffset) ==
  /\ app = AppState(currentMonth, timezoneOffset)
  /\ calls = << loadData(currentMonth) >>

InitMonth ==
  /\ txStore = EmptyStore
  /\ budgetStore = EmptyStore
  /\ imp = IdleImp
  /\ exp = IdleExp
  /\ last = NoOutcome
  /\ fault = "none"
  /\ pre = [tx |-> EmptyStore, budgets |-> EmptyStore]
  /\ \E y \in NavYears, m \in 1..12, z \in TimezoneOffsets : Mounted(MonthToken(y, m), z)

Awaited == UNCHANGED <<imp, exp, pre, fault>>

NextMonth ==
  \/ \E offset \in { 1, 0 - 1 } :
       /\ Len(calls) < MaxCalls
       /\ SplitMonth(app.currentMonth).year \in NavYears
       /\ changeMonth(offset) /\ Awaited
  \/ \E i \in 1..MaxCalls, storeName \in StoreNames : loadData_resolve(i, storeName) /\ Awaited

SpecMonth == InitMonth /\ [][NextMonth]_vars

\* the calendar month after (offset 1) or before (offset -1) a month token
CalendarMonth(token, offset) ==
  LET y == SplitMonth(token).year
      m == SplitMonth(token).month
  IN  IF offset = 1
        THEN IF m = 12 THEN MonthToken(y + 1, 1) ELSE MonthToken(y, m + 1)
        ELSE IF m = 1 THEN MonthToken(y - 1, 12) ELSE MonthToken(y, m - 1)

\* C29: in every time zone changeMonth(1) sets currentMonth to the next
\* calendar month and changeMonth(-1) to the previous one (December and
\* January roll the year), so that changeMonth(-1) right after
\* changeMonth(1) gives back the month the two calls started from.
C29_MonthNavigation ==
  last.op = "changeMonth" =>
    /\ app.currentMonth = CalendarMonth(last.arg.from, last.arg.offset)
    /\ (last.arg.offset = 0 - 1 /\ last.value.offset = 1) => app.currentMonth = last.value.from

\* ------------------------------------------------------------------------
\* exportDatabase with clearAllData and importDatabase called around it:
\* the calls are made in any order and the engine runs their transactions
\* as CanStart allows.  pre is the content of the stores when the first of
\* the two reads of the export ran.
\* ------------------------------------------------------------------------

\* backups of one Transaction and one MonthlyBudget
SmallSnapshots ==
  { data \in ValidSnapshots : Len(data.transactions) = 1 /\ Len(data.budgets) = 1 }

\* exportDatabase is called: both read-only transactions are created
exportDatabase_called ==
  /\ exp.pc = "idle"
  /\ exportDatabase_call
  /\ calls' = Append(calls, Call("exportDatabase", NoValue, Closure))

\* the i-th call is the export and the engine runs one of its two reads
exportDatabase_read(i, storeName) ==
  /\ i \in 1..Len(calls)
  /\ calls[i].op = "exportDatabase"
  /\ storeName \notin calls[i].got
  /\ CanStart(i, {storeName}, "readonly")
  /\ exportDatabase_getStoreData(storeName)
  /\ calls' = [calls EXCEPT ![i].got = @ \cup {storeName}]
  /\ pre' = IF exp.got = {} THEN Store ELSE pre

\* both reads of the i-th call have succeeded and exportDatabase returns
exportDatabase_returned(i) ==
  /\ i \in 1..Len(calls)
  /\ calls[i].op = "exportDatabase"
  /\ exportDatabase_return
  /\ calls' = Remove(calls, i)

\* clearAllData() or importDatabase(data) is called
Enqueue(op, arg) ==
  /\ calls' = Append(calls, Call(op, arg, Closure))
  /\ UNCHANGED <<txStore, budgetStore, last>>

\* the engine runs the transaction of the i-th call, a clearAllData
clearAllData_run(i) ==
  /\ i \in 1..Len(calls)
  /\ calls[i].op = "clearAllData"
  /\ CanStart(i, StoreNames, "readwrite")
  /\ clearAllData
  /\ calls' = Remove(calls, i)

\* the engine runs the clearAllData of the i-th call, an importDatabase,
\* which then creates its second transaction
importDatabase_clear_run(i) ==
  /\ i \in 1..Len(calls)
  /\ calls[i].op = "importDatabase"
  /\ CanStart(i, StoreNames, "readwrite")
  /\ importDatabase_clear(calls[i].arg)
  /\ calls' = Append(Remove(calls, i), Call("importDatabase_insert", calls[i].arg, calls[i].closure))

\* the engine runs the second transaction of an importDatabase
importDatabase_insert_run(i) ==
  /\ i \in 1..Len(calls)
  /\ calls[i].op = "importDatabase_insert"
  /\ CanStart(i, StoreNames, "readwrite")
  /\ importDatabase_insert
  /\ calls' = Remove(calls, i)

InitExport == InitStores

NextExport ==
  \/ Len(calls) < MaxCalls /\ exportDatabase_called /\ UNCHANGED <<app, imp, pre, fault>>
  \/ Len(calls) < MaxCalls /\ Enqueue("clearAllData", NoValue) /\ UNCHANGED <<app, imp, exp, pre, fault>>
  \/ \E data \in SmallSnapshots :
       /\ Len(calls) < MaxCalls
       /\ imp.pc = "idle"
       /\ \A i \in 1..Len(calls) : calls[i].op # "importDatabase"
       /\ Enqueue("importDatabase", data) /\ UNCHANGED <<app, imp, exp, pre, fault>>
  \/ \E i \in 1..MaxCalls, storeName \in StoreNames :
       exportDatabase_read(i, storeName) /\ UNCHANGED <<app, imp, fault>>
  \/ \E i \in 1..MaxCalls : exportDatabase_returned(i) /\ UNCHANGED <<app, imp, pre, fault>>
  \/ \E i \in 1..MaxCalls : clearAllData_run(i) /\ UNCHANGED <<app, imp, exp, pre, fault>>
  \/ \E i \in 1..MaxCalls : importDatabase_clear_run(i) /\ UNCHANGED <<app, exp, pre, fault>>
  \/ \E i \in 1..MaxCalls : importDatabase_insert_run(i) /\ UNCHANGED <<app, exp, pre, fault>>

SpecExport == InitExport /\ [][NextExport]_vars

\* C26: the transactions and the budgets of the snapshot exportDatabase
\* returns are the content of the two stores at one moment (the moment of
\* its first read), also when a clearAllData or an importDatabase is called
\* before, between or after its reads.
C26_SnapshotOfOneState ==
  exp.pc = "returned" =>
    /\ exp.snapshot.transactions = GetAll(pre.tx, "id")
    /\ exp.snapshot.budgets = GetAll(pre.budgets, "month")

\* exportDatabase has just returned from the middle of an importDatabase
\* that has cleared the stores and has not yet filled them
C26_Witness ==
  /\ exp.pc = "returned"
  /\ last.op = "exportDatabase"
  /\ imp.pc = "cleared"
  /\ pre = [tx |-> EmptyStore, budgets |-> EmptyStore]
  /\ exp.snapshot.transactions = <<>>
  /\ exp.snapshot.budgets = <<>>

\* ------------------------------------------------------------------------
\* "Limpar dados": handleClearData of App.tsx and handleClearData of the
\* single-file copy of the app, over any content of the stores.  The
\* answers to window.confirm are the inputs.  pre is the content of the
\* stores when the button was clicked.
\* ------------------------------------------------------------------------

\* the rest of a handler that calls the loadData of its render: with
\* setIsLoading(true) the form, the list and the settings leave the page
Reload(closure, state, rest) ==
  /\ app' = [state EXCEPT !.isLoading = TRUE]
  /\ calls' = Append(rest, loadData(closure.currentMonth))

\* the buttons below the header are on the page
MainRendered == ~app.isLoading

\* handleClearData of App.tsx with the answers to its two window.confirm;
\* the second one is asked only after the first is accepted
handleClearData(first, second) ==
  /\ MainRendered
  /\ pre' = Store
  /\ IF first /\ second
       THEN /\ calls' = Append(calls, Call("handleClearData", <<first, second>>, Closure))
            /\ UNCHANGED last
       ELSE /\ last' = Outcome("handleClearData",
                               IF first THEN <<first, second>> ELSE <<first>>,
                               "declined", NoValue)
            /\ UNCHANGED calls
  /\ UNCHANGED <<txStore, budgetStore, app>>

\* handleClearData of the single-file copy, with the answer to its one
\* window.confirm
handleClearData_single(answer) ==
  /\ MainRendered
  /\ pre' = Store
  /\ IF answer
       THEN /\ calls' = Append(calls, Call("handleClearData", <<answer>>, Closure))
            /\ UNCHANGED last
       ELSE /\ last' = Outcome("handleClearData", <<answer>>, "declined", NoValue)
            /\ UNCHANGED calls
  /\ UNCHANGED <<txStore, budgetStore, app>>

\* the engine runs the clearAllData of the i-th call, a handleClearData,
\* and the handler goes on with loadData()
handleClearData_resolve(i) ==
  /\ i \in 1..Len(calls)
  /\ calls[i].op = "handleClearData"
  /\ CanStart(i, StoreNames, "readwrite")
  /\ clearAllData
  /\ Reload(calls[i].closure, app, Remove(calls, i))
  /\ UNCHANGED pre

InitClear ==
  /\ txStore \in AllTxStores
  /\ budgetStore \in AllBudgetStores
  /\ imp = IdleImp
  /\ exp = IdleExp
  /\ last = NoOutcome
  /\ fault = "none"
  /\ pre = [tx |-> txStore, budgets |-> budgetStore]
  /\ Mounted(MonthToken(2024, 2), 180)

NextClear ==
  \/ \E first, second \in BOOLEAN :
       /\ Len(calls) < MaxCalls
       /\ first \/ ~second
       /\ handleClearData(first, second) /\ UNCHANGED <<imp, exp, fault>>
  \/ \E answer \in BOOLEAN :
       /\ Len(calls) < MaxCalls
       /\ handleClearData_single(answer) /\ UNCHANGED <<imp, exp, fault>>
  \/ \E i \in 1..MaxCalls : handleClearData_resolve(i) /\ UNCHANGED <<imp, exp, fault>>
  \/ \E i \in 1..MaxCalls, storeName \in StoreNames : loadData_resolve(i, storeName) /\ Awaited

SpecClear == InitClear /\ [][NextClear]_vars

\* C23: the calling layer invokes clearAllData only after two confirmations
\* were asked and both accepted, and after a declined confirmation the
\* stores are as they were when the button was clicked.
C23_TwoConfirmations ==
  /\ \A i \in 1..Len(calls) :
       calls[i].op = "handleClearData" => calls[i].arg = <<TRUE, TRUE>>
  /\ (last.op = "handleClearData" /\ last.status = "declined") => Store = pre

\* ------------------------------------------------------------------------
\* Editing and deleting from the list: the component is mounted over a
\* store of one Transaction, and the user clicks the month buttons, the
\* pencil and the bin of a line of the list on display and the submit
\* button of the form whenever they are on the page.  pre is the content
\* of the stores when the last write of a handler ran.
\* ------------------------------------------------------------------------

\* transactions.find(t => t.id === id): the first of that id, if there is one
Find(list, id) ==
  LET at == { k \in 1..Len(list) : list[k].id = id }
  IN  IF at = {} THEN {} ELSE { list[CHOOSE k \in at : \A o \in at : k <= o] }

\* the fields of the form when a Transaction is under edit: the useEffect
\* on initialData fills them, and the user can retype the amount
FormDatas(initialData) ==
  { [description |-> initialData.description, amount |-> amount,
     method |-> initialData.method, date |-> initialData.date,
     time |-> IF initialData.time = NoTime THEN TimeStr(12, 0) ELSE initialData.time] :
    amount \in { initialData.amount, 990 } }

\* handleEditClick(t) of a line of the list
handleEditClick(t) ==
  /\ MainRendered
  /\ t \in Range(app.transactions)
  /\ app' = [app EXCEPT !.editingTransaction = {t}]
  /\ UNCHANGED <<txStore, budgetStore, last, pre, calls>>

\* handleUpdateTransaction(id, data) up to its await
handleUpdateTransaction_called(id, data) ==
  /\ MainRendered
  /\ LET original == Find(app.transactions, id)
     IN  \E createdAt \in IF original = {} THEN Nows ELSE { o.createdAt : o \in original } :
           calls' = Append(calls,
                      Call("handleUpdateTransaction",
                           [id |-> id, description |-> data.description, amount |-> data.amount,
                            method |-> data.method, date |-> data.date, time |-> data.time,
                            createdAt |-> createdAt],
                           Closure))
  /\ UNCHANGED <<txStore, budgetStore, last, pre, app>>

\* the put of the i-th call, a handleUpdateTransaction, succeeds and the
\* handler goes on: setEditingTransaction(null), loadData()
handleUpdateTransaction_resolve(i) ==
  /\ i \in 1..Len(calls)
  /\ calls[i].op = "handleUpdateTransaction"
  /\ CanStart(i, {"transactions"}, "readwrite")
  /\ updateTransaction(calls[i].arg)
  /\ pre' = Store
  /\ Reload(calls[i].closure, [app EXCEPT !.editingTransaction = {}], Remove(calls, i))

\* handleDeleteTransaction(id) with its window.confirm accepted, up to its
\* await
handleDeleteTransaction_called(id) ==
  /\ MainRendered
  /\ \E t \in Range(app.transactions) : t.id = id
  /\ calls' = Append(calls, Call("handleDeleteTransaction", id, Closure))
  /\ UNCHANGED <<txStore, budgetStore, last, pre, app>>

\* the ids of the edits that are open in the form or on their way to the
\* store
EditsOf(state, pending) ==
  { t.id : t \in state.editingTransaction }
    \cup { pending[k].arg.id : k \in { j \in 1..Len(pending) : pending[j].op = "handleUpdateTransaction" } }

\* the delete of the i-th call, a handleDeleteTransaction, succeeds and the
\* handler goes on: the edit is closed when the render of the click had this
\* Transaction under edit, then loadData().  The outcome keeps the edits
\* that are open or on their way at this moment.
handleDeleteTransaction_resolve(i) ==
  /\ i \in 1..Len(calls)
  /\ calls[i].op = "handleDeleteTransaction"
  /\ CanStart(i, {"transactions"}, "readwrite")
  /\ LET id      == calls[i].arg
         closure == calls[i].closure
         state   == IF \E t \in closure.editingTransaction : t.id = id
                      THEN [app EXCEPT !.editingTransaction = {}] ELSE app
         rest    == Remove(calls, i)
     IN  /\ txStore' = StoreDelete(txStore, id)
         /\ last' = Outcome("handleDeleteTransaction", id, "ok", EditsOf(state, rest))
         /\ Reload(closure, state, rest)
  /\ pre' = Store
  /\ UNCHANGED budgetStore

InitEdit ==
  /\ txStore \in { s \in AllTxStores : Cardinality(DOMAIN s) = 1 }
  /\ budgetStore = EmptyStore
  /\ imp = IdleImp
  /\ exp = IdleExp
  /\ last = NoOutcome
  /\ fault = "none"
  /\ pre = [tx |-> txStore, budgets |-> budgetStore]
  /\ \E m \in BudgetMonths : Mounted(m, 180)

Handled == UNCHANGED <<imp, exp, fault>>

NextEdit ==
  \/ \E offset \in { 1, 0 - 1 } :
       /\ Len(calls) < MaxCalls
       /\ NewMonthStr(app.currentMonth, offset, app.timezoneOffset) \in BudgetMonths
       /\ changeMonth(offset) /\ Awaited
  \/ \E i \in 1..MaxCalls, storeName \in StoreNames : loadData_resolve(i, storeName) /\ Awaited
  \/ \E t \in Range(app.transactions) : handleEditClick(t) /\ Handled
  \/ \E t \in app.editingTransaction :
       \E data \in FormDatas(t) :
         /\ Len(calls) < MaxCalls
         /\ handleUpdateTransaction_called(t.id, data) /\ Handled
  \/ \E i \in 1..MaxCalls : handleUpdateTransaction_resolve(i) /\ Handled
  \/ \E id \in Ids :
       /\ Len(calls) < MaxCalls
       /\ handleDeleteTransaction_called(id) /\ Handled
  \/ \E i \in 1..MaxCalls : handleDeleteTransaction_resolve(i) /\ Handled

SpecEdit == InitEdit /\ [][NextEdit]_vars

\* C22: the record that handleUpdateTransaction stores for a Transaction that
\* is in the store has the id and the createdAt of the stored one; only
\* description, amount, method, date and time can differ.
C22_EditKeepsIdentity ==
  (last.op = "updateTransaction" /\ Has(pre.tx, last.arg.id)) =>
     /\ last.arg.id = pre.tx[last.arg.id].id
     /\ last.arg.createdAt = pre.tx[last.arg.id].createdAt

\* C27: after the deleteTransaction of a confirmed handleDeleteTransaction(id)
\* has completed while an edit of the same Transaction was open in the form
\* or on its way to the store, no step puts a record of that id back.
C27_DeletedStaysDeleted ==
  [][ (/\ last.op = "handleDeleteTransaction"
       /\ last.arg \in last.value
       /\ ~Has(txStore, last.arg)) => ~Has(txStore', last.arg) ]_vars

\* ------------------------------------------------------------------------
\* The month on display: the component is mounted over a store of one
\* Transaction and any budgets, and the user clicks the month buttons at
\* any moment, and saves a budget or deletes a line of the list whenever
\* the page shows them.
\* ------------------------------------------------------------------------

\* handleUpdateLimit(newLimit) up to its await
handleUpdateLimit_called(newLimit) ==
  /\ MainRendered
  /\ calls' = Append(calls, Call("handleUpdateLimit",
                                 MonthlyBudget(app.currentMonth, newLimit), Closure))
  /\ UNCHANGED <<txStore, budgetStore, last, pre, app>>

\* the put of the i-th call, a handleUpdateLimit, succeeds and the handler
\* goes on: setBudget(newLimit)
handleUpdateLimit_resolve(i) ==
  /\ i \in 1..Len(calls)
  /\ calls[i].op = "handleUpdateLimit"
  /\ CanStart(i, {"budgets"}, "readwrite")
  /\ setMonthlyBudget(calls[i].arg)
  /\ pre' = Store
  /\ app' = [app EXCEPT !.budget = calls[i].arg.limit]
  /\ calls' = Remove(calls, i)

InitLoad ==
  /\ txStore \in { s \in AllTxStores : Cardinality(DOMAIN s) = 1 }
  /\ budgetStore \in AllBudgetStores
  /\ imp = IdleImp
  /\ exp = IdleExp
  /\ last = NoOutcome
  /\ fault = "none"
  /\ pre = [tx |-> txStore, budgets |-> budgetStore]
  /\ \E m \in BudgetMonths : Mounted(m, 180)

NextLoad ==
  \/ \E offset \in { 1, 0 - 1 } :
       /\ Len(calls) < MaxCalls
       /\ NewMonthStr(app.currentMonth, offset, app.timezoneOffset) \in BudgetMonths
       /\ changeMonth(offset) /\ Awaited
  \/ \E i \in 1..MaxCalls, storeName \in StoreNames : loadData_resolve(i, storeName) /\ Awaited
  \/ \E newLimit \in Limits :
       /\ Len(calls) < MaxCalls
       /\ handleUpdateLimit_called(newLimit) /\ Handled
  \/ \E i \in 1..MaxCalls : handleUpdateLimit_resolve(i) /\ Handled
  \/ \E id \in Ids :
       /\ Len(calls) < MaxCalls
       /\ handleDeleteTransaction_called(id) /\ Handled
  \/ \E i \in 1..MaxCalls : handleDeleteTransaction_resolve(i) /\ Handled

SpecLoad == InitLoad /\ [][NextLoad]_vars

\* a call of one of the handlers is at its await
InFlight(ops) == \E i \in 1..Len(calls) : calls[i].op \in ops

\* C28: whenever no loadData and no budget write is in flight, the list and
\* the budget of the component are the Transactions and the limit stored
\* for currentMonth (0 without a budget), whatever the order of the month
\* changes, the writes and the answers of earlier loadData calls.
C28_DisplayIsCurrentMonth ==
  ~InFlight({ "loadData", "handleUpdateLimit" }) =>
     /\ app.transactions \in MonthResults(txStore, app.currentMonth)
     /\ app.budget = BudgetResult(budgetStore, app.currentMonth)

====
